---- MODULE Spec2Model ----
(***************************************************************************)
(* A model of lelet, an M:N task executor: Processors (run loop, injector, *)
(* wake channel, machine_id revocation token), Machines (worker threads),  *)
(* System (push/pop/steal, sysmon), the cached thread pool in its two      *)
(* variants, and abort_on_panic, Yields, SimpleLock and block_on of        *)
(* lelet-utils.                                                            *)
(***************************************************************************)
EXTENDS Integers, Sequences, FiniteSets, TLC

(* ------------------------------ bounds -------------------------------- *)
MaxCpus == 2
NumTasks == 2
MaxSpares == 1
MaxTick == 3
MaxPolls == 2
SnoozeLimit == 1
FairBatch == 66
MaxCallers == 2
MaxClockSteps == 4
UnitsPerSec == 2
MaxProducers == 2
MaxWakeCalls == 3
MaxYields == 5
MaxReplacements == 2
U64Bits == 20
MaxLockers == 3
MaxLockCalls == 3

(* -------------------------- program constants ------------------------- *)
MAX == 65535
MAX_RUNS == 64
STALL_THRESHOLD == 1

IDLE_THRESHOLD == 300
IDLE_THRESHOLD_MS == 60000

NoTask == 0
NoProc == -1
NoJob == 0
Never == -1

MaxMachines == MaxCpus + MaxReplacements
Slots == 1..MaxMachines
ProcIdx == 0..(MaxCpus - 1)

VARIABLES
  (* what one run of the model explores: the spare Machines, the sysmon   *)
  (* ticks and the polls per task it allows, whether set_num_cpus is      *)
  (* called                                                               *)
  lim,
  (* System *)
  initialized, num_cpus, setRes, tick, push_counter, machine_id_counter,
  (* Processor *)
  machine_id, last_seen, injector, notif,
  (* Machine / RunContext and the position of each Machine thread *)
  mpc, mproc, mid, worker, hand, run_counter, backoff, site, wakeTarget,
  marked,
  (* Task and TaskTag *)
  tstate, hint, polls, lastPoll, tpush,
  (* history *)
  fromInj, starve, checked, lost, enterTick,
  (* thread pool: the clock, Pool, the pool threads and the callers of     *)
  (* spawn_box                                                             *)
  clock, csteps, next_exit, tpc, waitStart, nowRead, neRead, running,
  exitAt, cpc, returns,
  (* the callers of Processor::wake_up: what each call returned, how many  *)
  (* calls each made, how many signals were stored                         *)
  wret, wcalls, wtrue,
  (* System::push: the Processor each task was routed to and the value of  *)
  (* push_counter its push used                                            *)
  route, ticket,
  (* lelet-utils: abort_on_panic around a closure that polls Yields(yk)    *)
  upc, yk, panicAt, y0, npoll, nwake, ures, bomb, aborted,
  (* thread pool, last_exit variant: Pool.last_exit, the value each thread *)
  (* loaded, whether the build checks integer overflow, and the largest    *)
  (* value last_exit has held                                              *)
  last_exit, leRead, overflow_checks, leMax,
  (* SimpleLock: the flag, the guards each thread holds, what each         *)
  (* thread's last call of try_lock or is_locked returned, the calls it    *)
  (* made                                                                  *)
  locked, guards, lret, lcalls,
  (* block_on: the position of the calling thread, Parker's flag, the      *)
  (* future (Pendings left and at the start, who wakes it), the polls      *)
  (* made, the thread holding a Waker clone, the wakes it owes, and where  *)
  (* the calling thread was when the flag was set                          *)
  bpc, runnable, fk, f0, fkind, bpolls, wpc, owed, wokenAt

sysVars == <<lim, initialized, num_cpus, setRes, tick, push_counter,
             machine_id_counter>>
procVars == <<machine_id, last_seen, injector, notif>>
machVars == <<mpc, mproc, mid, worker, hand, run_counter, backoff, site,
              wakeTarget, marked>>
taskVars == <<tstate, hint, polls, lastPoll, tpush>>
histVars == <<fromInj, starve, checked, lost, enterTick>>
schedVars == <<sysVars, procVars, machVars, taskVars, histVars>>

poolVars == <<clock, csteps, next_exit, tpc, waitStart, nowRead, neRead,
              running, exitAt, cpc, returns>>

wakeVars == <<wret, wcalls, wtrue>>
pushVars == <<route, ticket>>
utilVars == <<upc, yk, panicAt, y0, npoll, nwake, ures, bomb, aborted>>
exitVars == <<last_exit, leRead, overflow_checks, leMax>>
lockVars == <<locked, guards, lret, lcalls>>
blockVars == <<bpc, runnable, fk, f0, fkind, bpolls, wpc, owed, wokenAt>>
auxVars == <<wakeVars, pushVars, utilVars, exitVars, lockVars, blockVars>>

vars == <<schedVars, poolVars, auxVars>>

(* ------------------------------ helpers ------------------------------- *)
Procs == 0..(num_cpus - 1)
Tasks == DOMAIN tstate

RECURSIVE SeqToSet(_)
SeqToSet(s) == IF s = <<>> THEN {} ELSE {Head(s)} \cup SeqToSet(Tail(s))

Prefix(s, n) == SubSeq(s, 1, n)
Suffix(s, n) == SubSeq(s, n + 1, Len(s))

(* The Machines whose thread is inside Processor::run. *)
Live(m) == mpc[m] \notin {"unused", "spawned", "exited"}

(* ------------------------------ TaskTag ------------------------------- *)
(* A tag whose hint always reads as unknown.                              *)
hint_always_unknown(t) == MAX

get_schedule_index_hint(t) == hint[t]

(* A run_task! that polls without recording the Processor.                *)
hint_not_recorded(h, t, index) == h

set_schedule_index_hint(h, t, index) ==
  IF h[t] # index THEN [h EXCEPT ![t] = index] ELSE h

(* ----------------------------- Processor ------------------------------ *)
still_on_machine(p, m) == machine_id[p] = mid[m]

(* A Processor::run that starts its loop without the store of line 69.    *)
machine_id_not_stored(ids, p, id) == ids

(* Line 69: machine_id.store(machine.id)                                  *)
machine_id_store(ids, p, id) == [ids EXCEPT ![p] = id]

(* A heartbeat that always reads as parked.                               *)
last_seen_parked(p) == MAX

get_last_seen(p) == last_seen[p]

(* try_send on the capacity-1 channel: the channel afterwards, and whether *)
(* the signal was stored.                                                  *)
wake_up(ch, p) == [ch EXCEPT ![p] = 1]

(* A wake_up that reports a delivery whatever the channel holds.          *)
wake_up_always_delivered(ch, p) == TRUE

wake_up_delivered(ch, p) == ch[p] = 0

(* A run_task! that ignores the outcome of the check.                     *)
RunTaskUnchecked(ok) == "sethint"

(* A run_task! with the two branches of line 92 exchanged.                *)
RunTaskInverted(ok) == IF ok THEN "pushback" ELSE "sethint"

(* Which branch of run_task! a Machine takes after the check of line 92.   *)
RunTaskBranch(ok) == IF ok THEN "sethint" ELSE "pushback"

(* A test of line 141 that lets one more poll through.                    *)
MaxRunsExceeded(rc) == rc > MAX_RUNS

(* Line 141: the global queue is inspected before the worker deque.        *)
MaxRunsReached(rc) == rc >= MAX_RUNS

(* Where the run loop goes on when get_tasks! found nothing.               *)
AfterGetTasks(s) ==
  CASE s = "A" -> "wpop"
    [] s = "B" -> "steal"
    [] s = "C" -> "loop"

(* Backoff::is_completed after `n` snoozes.                                *)
BackoffCompleted(n) == n >= SnoozeLimit

(* ------------------------------- System ------------------------------- *)
now == tick

(* System::push: the Processor a task is routed to.                        *)
HintInRange(t) == get_schedule_index_hint(t) \in Procs
PushTarget(t) ==
  IF HintInRange(t) THEN get_schedule_index_hint(t)
  ELSE push_counter % num_cpus
PushCounterAfter(t) ==
  IF HintInRange(t) THEN push_counter ELSE push_counter + 1

(* sysmon: a Processor is stalled.                                         *)
Stalled(last, t) == last # MAX /\ t - last > STALL_THRESHOLD

(* Machine::spawn(processor): a fresh id from machine_id_counter, and a   *)
(* closure handed to the thread pool that will call processor.run.  `st`  *)
(* is the Machine table [pc, proc, id, ctr].                              *)
MachineTable == [pc |-> mpc, proc |-> mproc, id |-> mid,
                 ctr |-> machine_id_counter]
FreeSlot(st) == CHOOSE s \in Slots :
                  st.pc[s] = "unused" /\ \A r \in Slots : r < s => st.pc[r] # "unused"
HasFreeSlot(st) ==
  /\ \E s \in Slots : st.pc[s] = "unused"
  /\ st.ctr < num_cpus + lim.spares
(* An id source that hands out an id a second time.                       *)
MachineIdReused(ctr) == ctr % 2

NextMachineId(ctr) == ctr
Machine_spawn(st, p) ==
  [pc |-> [st.pc EXCEPT ![FreeSlot(st)] = "spawned"],
   proc |-> [st.proc EXCEPT ![FreeSlot(st)] = p],
   id |-> [st.id EXCEPT ![FreeSlot(st)] = NextMachineId(st.ctr)],
   ctr |-> st.ctr + 1]
SetMachineTable(st) ==
  /\ mpc' = st.pc
  /\ mproc' = st.proc
  /\ mid' = st.id
  /\ machine_id_counter' = st.ctr

(* System::get on first use: the Processors, and one Machine for each.     *)
RECURSIVE SpawnAll(_, _)
SpawnAll(st, p) ==
  IF p = num_cpus THEN st ELSE SpawnAll(Machine_spawn(st, p), p + 1)
SystemInit ==
  /\ initialized' = TRUE
  /\ SetMachineTable(SpawnAll(MachineTable, 0))

(* sysmon: one iteration of its loop at tick `t` spawns a Machine for      *)
(* every stalled Processor.                                               *)
RECURSIVE SysmonScan(_, _, _)
SysmonScan(st, p, t) ==
  IF p = num_cpus THEN st
  ELSE SysmonScan(IF Stalled(get_last_seen(p), t) /\ HasFreeSlot(st)
                  THEN Machine_spawn(st, p) ELSE st,
                  p + 1, t)

(* System::set_num_cpus: refused once the System exists.                   *)
System_set_num_cpus(n) ==
  IF initialized
  THEN /\ setRes' = "err"
       /\ UNCHANGED num_cpus
  ELSE /\ setRes' = "ok"
       /\ num_cpus' = n

(* ----------------------------- thread pool ---------------------------- *)
(* Time is counted in units of 1/UnitsPerSec second.  A caller of         *)
(* spawn_box brings one job, named after the caller; returns[c] tells     *)
(* whether that job ever returns.                                         *)
Callers == 1..MaxCallers
Threads == 1..MaxCallers
IdleUnits == IDLE_THRESHOLD * UnitsPerSec
ClockSteps == {1, IdleUnits - 1}

(* Duration::as_secs                                                      *)
as_secs(d) == d \div UnitsPerSec

(* Pool::run, line 98                                                     *)
MayExit(n, ne) == as_secs(n) >= ne
(* Pool::run, lines 99-100                                                *)
new_next_exit(n) == as_secs(n + IdleUnits)

(* bounded(0): a job passes only between a sender and a receiver that    *)
(* meet in the channel; whoever arrives first blocks.                     *)
Receivers == {th \in Threads : tpc[th] = "recv"}
Senders == {c \in Callers : cpc[c] = "send"}
FreeThread == CHOOSE th \in Threads :
                tpc[th] = "none" /\ \A u \in Threads : u < th => tpc[u] # "none"

(* Pool::new                                                              *)
PoolNew ==
  /\ clock = 0
  /\ csteps = 0
  /\ next_exit = 0
  /\ tpc = [th \in Threads |-> "none"]
  /\ waitStart = [th \in Threads |-> 0]
  /\ nowRead = [th \in Threads |-> 0]
  /\ neRead = [th \in Threads |-> 0]
  /\ running = [th \in Threads |-> NoJob]
  /\ exitAt = [th \in Threads |-> Never]
  /\ cpc = [c \in Callers |-> "idle"]

(* A pool thread takes job c out of the channel.                          *)
Handed(th, c) ==
  /\ tpc' = [tpc EXCEPT ![th] = "job"]
  /\ running' = [running EXCEPT ![th] = c]
  /\ cpc' = [cpc EXCEPT ![c] = "done"]

(* put_job, lines 59-61: try_send, and thread::spawn when no thread is    *)
(* blocked in recv                                                        *)
TrySend(c) ==
  /\ cpc[c] = "idle"
  /\ IF Receivers # {}
     THEN \E th \in Receivers : Handed(th, c)
     ELSE /\ tpc' = [tpc EXCEPT ![FreeThread] = "loop"]
          /\ cpc' = [cpc EXCEPT ![c] = "spawned"]
          /\ UNCHANGED running
  /\ UNCHANGED <<clock, csteps, next_exit, waitStart, nowRead, neRead, exitAt,
                 returns, schedVars, auxVars>>

(* put_job, line 62: sender.send(job) meets a receiver or blocks          *)
Send(c) ==
  /\ cpc[c] = "spawned"
  /\ IF Receivers # {}
     THEN \E th \in Receivers : Handed(th, c)
     ELSE /\ cpc' = [cpc EXCEPT ![c] = "send"]
          /\ UNCHANGED <<tpc, running>>
  /\ UNCHANGED <<clock, csteps, next_exit, waitStart, nowRead, neRead, exitAt,
                 returns, schedVars, auxVars>>

(* Pool::run, lines 79-80: recv_timeout meets a sender or blocks          *)
RecvTimeout(th) ==
  /\ tpc[th] = "loop"
  /\ IF Senders # {}
     THEN /\ \E c \in Senders : Handed(th, c)
          /\ UNCHANGED waitStart
     ELSE /\ tpc' = [tpc EXCEPT ![th] = "recv"]
          /\ waitStart' = [waitStart EXCEPT ![th] = clock]
          /\ UNCHANGED <<running, cpc>>
  /\ UNCHANGED <<clock, csteps, next_exit, nowRead, neRead, exitAt, returns,
                 schedVars, auxVars>>

(* Pool::run, line 87: job() returns                                      *)
JobReturn(th) ==
  /\ tpc[th] = "job"
  /\ returns[running[th]]
  /\ tpc' = [tpc EXCEPT ![th] = "loop"]
  /\ running' = [running EXCEPT ![th] = NoJob]
  /\ UNCHANGED <<clock, csteps, next_exit, waitStart, nowRead, neRead, exitAt,
                 cpc, returns, schedVars, auxVars>>

(* time passes                                                            *)
ClockAdvance(d) ==
  /\ csteps < MaxClockSteps
  /\ clock' = clock + d
  /\ csteps' = csteps + 1
  /\ UNCHANGED <<next_exit, tpc, waitStart, nowRead, neRead, running, exitAt,
                 cpc, returns, schedVars, auxVars>>

(* Pool::run, lines 95-96: recv_timeout gives up and `now` is read        *)
Timeout(th) ==
  /\ tpc[th] = "recv"
  /\ clock >= waitStart[th] + IdleUnits
  /\ nowRead' = [nowRead EXCEPT ![th] = clock]
  /\ tpc' = [tpc EXCEPT ![th] = "load"]
  /\ UNCHANGED <<clock, csteps, next_exit, waitStart, neRead, running, exitAt,
                 cpc, returns, schedVars, auxVars>>

(* Pool::run, lines 97-98: next_exit is loaded and the time test is made  *)
LoadNextExit(th) ==
  /\ tpc[th] = "load"
  /\ IF MayExit(nowRead[th], next_exit)
     THEN /\ neRead' = [neRead EXCEPT ![th] = next_exit]
          /\ tpc' = [tpc EXCEPT ![th] = "cas"]
          /\ UNCHANGED nowRead
     ELSE /\ tpc' = [tpc EXCEPT ![th] = "loop"]
          /\ nowRead' = [nowRead EXCEPT ![th] = 0]
          /\ UNCHANGED neRead
  /\ UNCHANGED <<clock, csteps, next_exit, waitStart, running, exitAt, cpc,
                 returns, schedVars, auxVars>>

(* Pool::run, lines 104-116: the compare-and-swap, and the return         *)
CasNextExit(th) ==
  /\ tpc[th] = "cas"
  /\ IF next_exit = neRead[th]
     THEN /\ next_exit' = new_next_exit(nowRead[th])
          /\ tpc' = [tpc EXCEPT ![th] = "exited"]
          /\ exitAt' = [exitAt EXCEPT ![th] = clock]
     ELSE /\ tpc' = [tpc EXCEPT ![th] = "loop"]
          /\ UNCHANGED <<next_exit, exitAt>>
  /\ nowRead' = [nowRead EXCEPT ![th] = 0]
  /\ neRead' = [neRead EXCEPT ![th] = 0]
  /\ UNCHANGED <<clock, csteps, waitStart, running, cpc, returns, schedVars,
                 auxVars>>

(* ------------------ thread pool, last_exit variant -------------------- *)
(* src/src/thread_pool.rs keeps the time of the last exit in an AtomicU64  *)
(* of milliseconds.  Here the clock counts milliseconds and a u64 is       *)
(* scaled to U64Bits bits.                                                 *)
U64Modulus == 2 ^ U64Bits
MsSteps == {1, IDLE_THRESHOLD_MS}

(* u64 `-` in a build without overflow checks                              *)
wrapping_sub(a, b) == (a - b + U64Modulus) % U64Modulus

(* thread_main, line 61: the time test                                     *)
IdleLongEnough(n, le) == wrapping_sub(n, le) >= IDLE_THRESHOLD_MS

(* thread_main, lines 57-59: recv_timeout gives up, monotonic_ms is read   *)
TimeoutMs(th) ==
  /\ tpc[th] = "recv"
  /\ clock >= waitStart[th] + IDLE_THRESHOLD_MS
  /\ nowRead' = [nowRead EXCEPT ![th] = clock % U64Modulus]
  /\ tpc' = [tpc EXCEPT ![th] = "load"]
  /\ UNCHANGED <<clock, csteps, next_exit, waitStart, neRead, running, exitAt,
                 cpc, returns, schedVars, auxVars>>

(* thread_main, lines 60-61: last_exit is loaded and now - last_exit is    *)
(* computed: with overflow checks a negative difference panics, without    *)
(* them it wraps                                                           *)
LoadLastExit(th) ==
  /\ tpc[th] = "load"
  /\ IF overflow_checks /\ nowRead[th] < last_exit
     THEN /\ tpc' = [tpc EXCEPT ![th] = "panicked"]
          /\ UNCHANGED <<leRead, nowRead>>
     ELSE IF IdleLongEnough(nowRead[th], last_exit)
     THEN /\ leRead' = [leRead EXCEPT ![th] = last_exit]
          /\ tpc' = [tpc EXCEPT ![th] = "cas"]
          /\ UNCHANGED nowRead
     ELSE /\ tpc' = [tpc EXCEPT ![th] = "loop"]
          /\ nowRead' = [nowRead EXCEPT ![th] = 0]
          /\ UNCHANGED leRead
  /\ UNCHANGED <<clock, csteps, next_exit, waitStart, neRead, running, exitAt,
                 cpc, returns, schedVars, wakeVars, pushVars, utilVars,
                 last_exit, overflow_checks, leMax, lockVars,
                 blockVars>>

(* thread_main, lines 62-70: the compare-and-swap, and the return.  The    *)
(* exit is dated by the `now` the thread read at line 59, so that a stall  *)
(* of the thread between line 59 and its return does not count.            *)
CasLastExit(th) ==
  /\ tpc[th] = "cas"
  /\ IF last_exit = leRead[th]
     THEN /\ last_exit' = nowRead[th]
          /\ leMax' = IF nowRead[th] > leMax THEN nowRead[th] ELSE leMax
          /\ tpc' = [tpc EXCEPT ![th] = "exited"]
          /\ exitAt' = [exitAt EXCEPT ![th] = nowRead[th]]
     ELSE /\ tpc' = [tpc EXCEPT ![th] = "loop"]
          /\ UNCHANGED <<last_exit, leMax, exitAt>>
  /\ nowRead' = [nowRead EXCEPT ![th] = 0]
  /\ leRead' = [leRead EXCEPT ![th] = 0]
  /\ UNCHANGED <<clock, csteps, next_exit, waitStart, neRead, running, cpc,
                 returns, schedVars, wakeVars, pushVars, utilVars,
                 overflow_checks, lockVars, blockVars>>

(* ------------------------------- Init --------------------------------- *)
(* The runs explored: one Processor with a spare Machine under sysmon      *)
(* ticks, every task finishing in its first poll; one Processor with a     *)
(* spare Machine that only mark_blocking can bring in; all Processors,     *)
(* each with its first Machine only; and the configuration calls around    *)
(* the first spawn.                                                        *)
Runs ==
  { [cpus |-> 1, spares |-> MaxSpares, ticks |-> MaxTick,
     polls |-> 1, setcpus |-> FALSE],
    [cpus |-> 1, spares |-> MaxSpares, ticks |-> 0,
     polls |-> MaxPolls, setcpus |-> FALSE],
    [cpus |-> MaxCpus, spares |-> 0, ticks |-> 0,
     polls |-> MaxPolls, setcpus |-> FALSE],
    [cpus |-> 1, spares |-> 0, ticks |-> 0,
     polls |-> 1, setcpus |-> TRUE] }

InitSched ==
  /\ initialized = FALSE
  /\ setRes = "none"
  /\ tick = 0
  /\ push_counter = 0
  /\ machine_id_counter = 0
  /\ machine_id = [p \in ProcIdx |-> MAX]
  /\ last_seen = [p \in ProcIdx |-> MAX]
  /\ injector = [p \in ProcIdx |-> <<>>]
  /\ notif = [p \in ProcIdx |-> 0]
  /\ mpc = [s \in Slots |-> "unused"]
  /\ mproc = [s \in Slots |-> NoProc]
  /\ mid = [s \in Slots |-> MAX]
  /\ worker = [s \in Slots |-> <<>>]
  /\ hand = [s \in Slots |-> NoTask]
  /\ run_counter = [s \in Slots |-> 0]
  /\ backoff = [s \in Slots |-> 0]
  /\ site = [s \in Slots |-> "B"]
  /\ wakeTarget = [s \in Slots |-> NoProc]
  /\ marked = [s \in Slots |-> FALSE]
  /\ tstate = [t \in 1..NumTasks |-> "new"]
  /\ hint = [t \in 1..NumTasks |-> MAX]
  /\ polls = [t \in 1..NumTasks |-> 0]
  /\ lastPoll = [t \in 1..NumTasks |-> NoProc]
  /\ tpush = [t \in 1..NumTasks |-> NoProc]
  /\ fromInj = [s \in Slots |-> FALSE]
  /\ starve = [s \in Slots |-> 0]
  /\ checked = [s \in Slots |-> FALSE]
  /\ lost = {}
  /\ enterTick = [s \in Slots |-> 0]

(* --------------------- spawn, wakers, set_num_cpus -------------------- *)
(* A set_num_cpus that does not ask whether the System exists.            *)
set_num_cpus_unguarded(n) ==
  /\ num_cpus' = n
  /\ setRes' = "ok"
  /\ UNCHANGED <<lim, initialized, tick, push_counter, machine_id_counter,
                 procVars, machVars, taskVars, histVars>>
  /\ UNCHANGED <<poolVars, auxVars>>

(* executor::set_num_cpus                                                 *)
set_num_cpus(n) ==
  /\ System_set_num_cpus(n)
  /\ UNCHANGED <<lim, initialized, tick, push_counter, machine_id_counter,
                 procVars, machVars, taskVars, histVars>>
  /\ UNCHANGED <<poolVars, auxVars>>

SetNumCpus == \E n \in 1..MaxCpus : lim.setcpus /\ set_num_cpus(n)

(* System::push up to and including injector.push; the wake-up follows.   *)
PushInjector(t) ==
  /\ injector' = [injector EXCEPT ![PushTarget(t)] = Append(@, t)]
  /\ push_counter' = PushCounterAfter(t)

(* executor::spawn: System::get, then task.schedule() calls System::push.  *)
Spawn(t) ==
  /\ tstate[t] = "new"
  /\ \A u \in Tasks : u < t => tstate[u] # "new"
  /\ IF initialized
     THEN UNCHANGED <<initialized, mpc, mproc, mid, machine_id_counter>>
     ELSE SystemInit
  /\ PushInjector(t)
  /\ tstate' = [tstate EXCEPT ![t] = "queued"]
  /\ tpush' = [tpush EXCEPT ![t] = PushTarget(t)]
  /\ UNCHANGED <<lim, num_cpus, setRes, tick, machine_id, last_seen, notif,
                 worker, hand, run_counter, backoff, site, wakeTarget,
                 marked, hint, polls, lastPoll, histVars>>
  /\ UNCHANGED <<poolVars, auxVars>>

(* The waker of a pending task fires on some other thread.                *)
Wake(t) ==
  /\ tstate[t] = "waiting"
  /\ tpush[t] = NoProc
  /\ PushInjector(t)
  /\ tstate' = [tstate EXCEPT ![t] = "queued"]
  /\ tpush' = [tpush EXCEPT ![t] = PushTarget(t)]
  /\ UNCHANGED <<lim, initialized, num_cpus, setRes, tick,
                 machine_id_counter, machine_id, last_seen, notif, machVars,
                 hint, polls, lastPoll, histVars>>
  /\ UNCHANGED <<poolVars, auxVars>>

(* The second half of push_then_wake_up on a submitter's thread.           *)
PushWake(t) ==
  /\ tpush[t] # NoProc
  /\ notif' = wake_up(notif, tpush[t])
  /\ tpush' = [tpush EXCEPT ![t] = NoProc]
  /\ UNCHANGED <<sysVars, machine_id, last_seen, injector, machVars, tstate,
                 hint, polls, lastPoll, histVars>>
  /\ UNCHANGED <<poolVars, auxVars>>

(* ------------------------------- sysmon ------------------------------- *)
Sysmon ==
  /\ initialized
  /\ tick < lim.ticks
  /\ tick' = tick + 1
  /\ SetMachineTable(SysmonScan(MachineTable, 0, tick + 1))
  /\ UNCHANGED <<lim, initialized, num_cpus, setRes, push_counter, procVars,
                 worker, hand, run_counter, backoff, site, wakeTarget, marked,
                 taskVars, histVars>>
  /\ UNCHANGED <<poolVars, auxVars>>

(* --------------------------- Processor::run --------------------------- *)
(* line 69: the binding store                                             *)
Bind(m) ==
  /\ mpc[m] = "spawned"
  /\ machine_id' = machine_id_store(machine_id, mproc[m], mid[m])
  /\ mpc' = [mpc EXCEPT ![m] = "loop"]
  /\ UNCHANGED <<sysVars, last_seen, injector, notif, mproc, mid, worker,
                 hand, run_counter, backoff, site, wakeTarget, marked,
                 taskVars, histVars>>
  /\ UNCHANGED <<poolVars, auxVars>>

(* lines 70 and 86-88 (the heartbeat), and the test of line 141          *)
LoopTop(m) ==
  /\ mpc[m] = "loop"
  /\ last_seen' = [last_seen EXCEPT ![mproc[m]] = now]
  /\ IF MaxRunsReached(run_counter[m])
     THEN /\ mpc' = [mpc EXCEPT ![m] = "flush"]
          /\ site' = [site EXCEPT ![m] = "A"]
     ELSE /\ mpc' = [mpc EXCEPT ![m] = "wpop"]
          /\ UNCHANGED site
  /\ UNCHANGED <<sysVars, machine_id, injector, notif, mproc, mid, worker,
                 hand, run_counter, backoff, wakeTarget, marked, taskVars,
                 histVars>>
  /\ UNCHANGED <<poolVars, auxVars>>

(* get_tasks!, lines 133-134: reset run_counter, flush the wake channel   *)
Flush(m) ==
  /\ mpc[m] = "flush"
  /\ run_counter' = [run_counter EXCEPT ![m] = 0]
  /\ notif' = [notif EXCEPT ![mproc[m]] = 0]
  /\ mpc' = [mpc EXCEPT ![m] = "ipop"]
  /\ UNCHANGED <<sysVars, machine_id, last_seen, injector, mproc, mid,
                 worker, hand, backoff, site, wakeTarget, marked, taskVars,
                 histVars>>
  /\ UNCHANGED <<poolVars, auxVars>>

(* steal_batch_and_pop on a queue of `len` tasks pops one and moves a     *)
(* batch of the others into the worker deque: half of the queue, the      *)
(* popped task included, or all of it.                                    *)
BatchSizes(len) == {(len - 1) \div 2, len - 1}

(* get_tasks!, line 135: system.pop -> Processor::pop, lines 212-223      *)
InjPop(m) ==
  /\ mpc[m] = "ipop"
  /\ IF injector[mproc[m]] = <<>>
     THEN /\ mpc' = [mpc EXCEPT ![m] = AfterGetTasks(site[m])]
          /\ UNCHANGED <<injector, worker, hand, fromInj>>
     ELSE \E b \in BatchSizes(Len(injector[mproc[m]])) :
            /\ hand' = [hand EXCEPT ![m] = Head(injector[mproc[m]])]
            /\ worker' = [worker EXCEPT
                 ![m] = @ \o Prefix(Tail(injector[mproc[m]]), b)]
            /\ injector' = [injector EXCEPT
                 ![mproc[m]] = Suffix(Tail(@), b)]
            /\ fromInj' = [fromInj EXCEPT ![m] = TRUE]
            /\ mpc' = [mpc EXCEPT ![m] = "check1"]
  /\ site' = [site EXCEPT ![m] = "B"]
  /\ UNCHANGED <<sysVars, machine_id, last_seen, notif, mproc, mid,
                 run_counter, backoff, wakeTarget, marked, taskVars,
                 starve, checked, lost, enterTick>>
  /\ UNCHANGED <<poolVars, auxVars>>

(* lines 146-148: worker.pop                                              *)
WorkerPop(m) ==
  /\ mpc[m] = "wpop"
  /\ IF worker[m] = <<>>
     THEN /\ mpc' = [mpc EXCEPT ![m] = "flush"]
          /\ site' = [site EXCEPT ![m] = "B"]
          /\ UNCHANGED <<worker, hand, fromInj>>
     ELSE /\ hand' = [hand EXCEPT ![m] = worker[m][Len(worker[m])]]
          /\ worker' = [worker EXCEPT ![m] = Prefix(@, Len(@) - 1)]
          /\ fromInj' = [fromInj EXCEPT ![m] = FALSE]
          /\ mpc' = [mpc EXCEPT ![m] = "check1"]
          /\ UNCHANGED site
  /\ UNCHANGED <<sysVars, procVars, mproc, mid, run_counter, backoff,
                 wakeTarget, marked, taskVars, starve, checked, lost, enterTick>>
  /\ UNCHANGED <<poolVars, auxVars>>

(* System::steal: the injectors of the other Processors and the worker    *)
(* deques of their live Machines.                                         *)
StealSources(m) ==
  {<<"inj", q>> : q \in {r \in Procs : r # mproc[m] /\ injector[r] # <<>>}}
  \cup
  {<<"wrk", v>> : v \in {r \in Slots : /\ r # m
                                       /\ Live(r)
                                       /\ mproc[r] # mproc[m]
                                       /\ worker[r] # <<>>}}

StealFrom(m, src, b) ==
  LET q == IF src[1] = "inj" THEN injector[src[2]] ELSE worker[src[2]]
      rest == Suffix(Tail(q), b)
  IN /\ hand' = [hand EXCEPT ![m] = Head(q)]
     /\ IF src[1] = "inj"
        THEN /\ injector' = [injector EXCEPT ![src[2]] = rest]
             /\ worker' = [worker EXCEPT ![m] = @ \o Prefix(Tail(q), b)]
        ELSE /\ worker' = [worker EXCEPT ![m] = @ \o Prefix(Tail(q), b),
                                         ![src[2]] = rest]
             /\ UNCHANGED injector

(* lines 155-158: system.steal                                            *)
Steal(m) ==
  /\ mpc[m] = "steal"
  /\ IF StealSources(m) = {}
     THEN /\ mpc' = [mpc EXCEPT ![m] = "sleep"]
          /\ UNCHANGED <<injector, worker, hand, fromInj>>
     ELSE /\ \E src \in StealSources(m) :
               \E b \in BatchSizes(Len(IF src[1] = "inj" THEN injector[src[2]]
                                      ELSE worker[src[2]])) :
                 StealFrom(m, src, b)
          /\ fromInj' = [fromInj EXCEPT ![m] = FALSE]
          /\ mpc' = [mpc EXCEPT ![m] = "check1"]
  /\ UNCHANGED <<sysVars, machine_id, last_seen, notif, mproc, mid,
                 run_counter, backoff, site, wakeTarget, marked, taskVars,
                 starve, checked, lost, enterTick>>
  /\ UNCHANGED <<poolVars, auxVars>>

(* run_task!, line 92                                                     *)
Check1(m) ==
  /\ mpc[m] = "check1"
  /\ checked' = [checked EXCEPT ![m] = still_on_machine(mproc[m], m)]
  /\ mpc' = [mpc EXCEPT ![m] = RunTaskBranch(still_on_machine(mproc[m], m))]
  /\ UNCHANGED <<sysVars, procVars, mproc, mid, worker, hand, run_counter,
                 backoff, site, wakeTarget, marked, taskVars, fromInj,
                 starve, lost, enterTick>>
  /\ UNCHANGED <<poolVars, auxVars>>

(* run_task!, lines 100-101: the hint is written and task.run() starts  *)
(* polling the future                                                     *)
CallRun(m) ==
  /\ mpc[m] = "sethint"
  /\ hint' = set_schedule_index_hint(hint, hand[m], mproc[m])
  /\ tstate' = [tstate EXCEPT ![hand[m]] = "running"]
  /\ polls' = [polls EXCEPT ![hand[m]] = @ + 1]
  /\ lastPoll' = [lastPoll EXCEPT ![hand[m]] = mproc[m]]
  /\ starve' = [starve EXCEPT ![m] =
                  IF fromInj[m] \/ injector[mproc[m]] = <<>> THEN 0 ELSE @ + 1]
  /\ fromInj' = [fromInj EXCEPT ![m] = FALSE]
  /\ enterTick' = [enterTick EXCEPT ![m] = now]
  /\ mpc' = [mpc EXCEPT ![m] = "in_run"]
  /\ UNCHANGED <<sysVars, procVars, mproc, mid, worker, hand, run_counter,
                 backoff, site, wakeTarget, marked, tpush, checked, lost>>
  /\ UNCHANGED <<poolVars, auxVars>>

(* executor::mark_blocking, called by the task being polled:              *)
(* Machine::respawn spawns a Machine for the caller's Processor.          *)
MarkBlocking(m) ==
  /\ mpc[m] = "in_run"
  /\ ~marked[m]
  /\ HasFreeSlot(MachineTable)
  /\ SetMachineTable(Machine_spawn(MachineTable, mproc[m]))
  /\ marked' = [marked EXCEPT ![m] = TRUE]
  /\ UNCHANGED <<lim, initialized, num_cpus, setRes, tick, push_counter,
                 procVars, worker, hand, run_counter, backoff, site,
                 wakeTarget, taskVars, histVars>>
  /\ UNCHANGED <<poolVars, auxVars>>

(* task.run() returns: the future is Ready.                               *)
RunDone(m) ==
  /\ mpc[m] = "in_run"
  /\ tstate' = [tstate EXCEPT ![hand[m]] = "done"]
  /\ hand' = [hand EXCEPT ![m] = NoTask]
  /\ mpc' = [mpc EXCEPT ![m] = "check2"]
  /\ enterTick' = [enterTick EXCEPT ![m] = 0]
  /\ UNCHANGED <<sysVars, procVars, mproc, mid, worker, run_counter, backoff,
                 site, wakeTarget, marked, hint, polls, lastPoll, tpush,
                 fromInj, starve, checked, lost>>
  /\ UNCHANGED <<poolVars, auxVars>>

(* task.run() ends Pending with the waker already called (as Yields       *)
(* does): the task reschedules itself through System::push.               *)
RunYield(m) ==
  /\ mpc[m] = "in_run"
  /\ polls[hand[m]] < lim.polls
  /\ PushInjector(hand[m])
  /\ wakeTarget' = [wakeTarget EXCEPT ![m] = PushTarget(hand[m])]
  /\ tstate' = [tstate EXCEPT ![hand[m]] = "queued"]
  /\ hand' = [hand EXCEPT ![m] = NoTask]
  /\ mpc' = [mpc EXCEPT ![m] = "mwake"]
  /\ enterTick' = [enterTick EXCEPT ![m] = 0]
  /\ UNCHANGED <<lim, initialized, num_cpus, setRes, tick,
                 machine_id_counter, machine_id, last_seen, notif, mproc, mid,
                 worker, run_counter, backoff, site, marked, hint, polls,
                 lastPoll, tpush, fromInj, starve, checked, lost>>
  /\ UNCHANGED <<poolVars, auxVars>>

(* task.run() ends Pending; the waker fires later (Wake).                 *)
RunPending(m) ==
  /\ mpc[m] = "in_run"
  /\ polls[hand[m]] < lim.polls
  /\ tstate' = [tstate EXCEPT ![hand[m]] = "waiting"]
  /\ hand' = [hand EXCEPT ![m] = NoTask]
  /\ mpc' = [mpc EXCEPT ![m] = "check2"]
  /\ enterTick' = [enterTick EXCEPT ![m] = 0]
  /\ UNCHANGED <<sysVars, procVars, mproc, mid, worker, run_counter, backoff,
                 site, wakeTarget, marked, hint, polls, lastPoll, tpush,
                 fromInj, starve, checked, lost>>
  /\ UNCHANGED <<poolVars, auxVars>>

(* run_task!, line 110: the revoked Machine gives the task back           *)
PushBack(m) ==
  /\ mpc[m] = "pushback"
  /\ PushInjector(hand[m])
  /\ wakeTarget' = [wakeTarget EXCEPT ![m] = PushTarget(hand[m])]
  /\ hand' = [hand EXCEPT ![m] = NoTask]
  /\ fromInj' = [fromInj EXCEPT ![m] = FALSE]
  /\ mpc' = [mpc EXCEPT ![m] = "mwake"]
  /\ UNCHANGED <<lim, initialized, num_cpus, setRes, tick,
                 machine_id_counter, machine_id, last_seen, notif, mproc, mid,
                 worker, run_counter, backoff, site, marked, taskVars,
                 starve, checked, lost, enterTick>>
  /\ UNCHANGED <<poolVars, auxVars>>

(* the wake_up half of push_then_wake_up on a Machine's thread            *)
MachineWake(m) ==
  /\ mpc[m] = "mwake"
  /\ notif' = wake_up(notif, wakeTarget[m])
  /\ wakeTarget' = [wakeTarget EXCEPT ![m] = NoProc]
  /\ mpc' = [mpc EXCEPT ![m] = "check2"]
  /\ UNCHANGED <<sysVars, machine_id, last_seen, injector, mproc, mid,
                 worker, hand, run_counter, backoff, site, marked, taskVars,
                 histVars>>
  /\ UNCHANGED <<poolVars, auxVars>>

(* What becomes of the worker deque when Processor::run returns and the   *)
(* Machine's closure ends: it is dropped with what it holds.              *)
DroppedWithMachine(w) == SeqToSet(w)

(* run_task!, lines 115-127                                               *)
Check2(m) ==
  /\ mpc[m] = "check2"
  /\ IF still_on_machine(mproc[m], m)
     THEN /\ run_counter' = [run_counter EXCEPT ![m] = @ + 1]
          /\ mpc' = [mpc EXCEPT ![m] = "loop"]
          /\ UNCHANGED <<worker, lost>>
     ELSE /\ mpc' = [mpc EXCEPT ![m] = "exited"]
          /\ lost' = lost \cup DroppedWithMachine(worker[m])
          /\ worker' = [worker EXCEPT ![m] = <<>>]
          /\ UNCHANGED run_counter
  /\ checked' = [checked EXCEPT ![m] = FALSE]
  /\ UNCHANGED <<sysVars, procVars, mproc, mid, hand, backoff, site,
                 wakeTarget, marked, taskVars, fromInj, starve,
                 enterTick>>
  /\ UNCHANGED <<poolVars, auxVars>>

(* Processor::sleep, lines 168-179 and 185-187                            *)
Sleep(m) ==
  /\ mpc[m] = "sleep"
  /\ IF BackoffCompleted(backoff[m])
     THEN /\ last_seen' = [last_seen EXCEPT ![mproc[m]] = MAX]
          /\ mpc' = [mpc EXCEPT ![m] = "park"]
          /\ UNCHANGED <<backoff, site>>
     ELSE /\ backoff' = [backoff EXCEPT ![m] = @ + 1]
          /\ mpc' = [mpc EXCEPT ![m] = "flush"]
          /\ site' = [site EXCEPT ![m] = "C"]
          /\ UNCHANGED last_seen
  /\ UNCHANGED <<sysVars, machine_id, injector, notif, mproc, mid, worker,
                 hand, run_counter, wakeTarget, marked, taskVars, histVars>>
  /\ UNCHANGED <<poolVars, auxVars>>

(* Processor::sleep, line 180: recv on the wake channel                   *)
Park(m) ==
  /\ mpc[m] = "park"
  /\ notif[mproc[m]] = 1
  /\ notif' = [notif EXCEPT ![mproc[m]] = 0]
  /\ mpc' = [mpc EXCEPT ![m] = "wake"]
  /\ UNCHANGED <<sysVars, machine_id, last_seen, injector, mproc, mid,
                 worker, hand, run_counter, backoff, site, wakeTarget,
                 marked, taskVars, histVars>>
  /\ UNCHANGED <<poolVars, auxVars>>

(* Processor::sleep, lines 181-184                                        *)
AfterPark(m) ==
  /\ mpc[m] = "wake"
  /\ last_seen' = [last_seen EXCEPT ![mproc[m]] = now]
  /\ backoff' = [backoff EXCEPT ![m] = 0]
  /\ mpc' = [mpc EXCEPT ![m] = "flush"]
  /\ site' = [site EXCEPT ![m] = "C"]
  /\ UNCHANGED <<sysVars, machine_id, injector, notif, mproc, mid, worker,
                 hand, run_counter, wakeTarget, marked, taskVars, histVars>>
  /\ UNCHANGED <<poolVars, auxVars>>

MachineStep(m) ==
  \/ Bind(m) \/ LoopTop(m) \/ Flush(m) \/ InjPop(m)
  \/ WorkerPop(m) \/ Steal(m) \/ Check1(m) \/ CallRun(m)
  \/ MarkBlocking(m) \/ RunDone(m) \/ RunYield(m) \/ RunPending(m)
  \/ PushBack(m) \/ MachineWake(m) \/ Check2(m) \/ Sleep(m) \/ Park(m)
  \/ AfterPark(m)

Next ==
  \/ SetNumCpus
  \/ \E t \in Tasks : Spawn(t) \/ Wake(t) \/ PushWake(t)
  \/ Sysmon
  \/ \E m \in Slots : MachineStep(m)

PoolUnused ==
  /\ PoolNew
  /\ returns = [c \in Callers |-> TRUE]

(* No caller of wake_up is followed, no push is recorded and lelet-utils  *)
(* is not exercised.                                                      *)
Producers == 1..MaxProducers
WakeUnused ==
  /\ wret = [c \in Producers |-> "none"]
  /\ wcalls = [c \in Producers |-> 0]
  /\ wtrue = 0
PushUnused ==
  /\ route = <<>>
  /\ ticket = <<>>
BlockOnUnused ==
  /\ bpc = "none"
  /\ runnable = FALSE
  /\ fk = 0
  /\ f0 = 0
  /\ fkind = "none"
  /\ bpolls = 0
  /\ wpc = "none"
  /\ owed = 0
  /\ wokenAt = {}
Lockers == 1..MaxLockers
LockUnused ==
  /\ locked = FALSE
  /\ guards = [t \in Lockers |-> 0]
  /\ lret = [t \in Lockers |-> "none"]
  /\ lcalls = [t \in Lockers |-> 0]
LastExitUnused ==
  /\ last_exit = 0
  /\ leRead = [th \in Threads |-> 0]
  /\ overflow_checks = FALSE
  /\ leMax = 0
UtilsUnused ==
  /\ upc = "none"
  /\ yk = 0
  /\ panicAt = 0
  /\ y0 = 0
  /\ npoll = 0
  /\ nwake = 0
  /\ ures = "none"
  /\ bomb = "none"
  /\ aborted = FALSE

Init ==
  /\ lim \in Runs
  /\ num_cpus = lim.cpus
  /\ InitSched
  /\ PoolUnused
  /\ WakeUnused
  /\ PushUnused
  /\ UtilsUnused
  /\ LastExitUnused
  /\ LockUnused
  /\ BlockOnUnused

Spec == Init /\ [][Next]_vars

(* ------------------- a long burst of submissions ---------------------- *)
(* 2 * FairBatch tasks were spawned before any Machine thread started:    *)
(* push_counter spread them over the injectors of two Processors and the  *)
(* wake-ups were sent.  One more task is spawned at any later moment.     *)
(* The Machine of Processor 0 runs; the thread of the other Machine has   *)
(* not been scheduled yet.                                                *)
RECURSIVE RoundRobin(_, _)
RoundRobin(n, p) ==
  IF n = 0 THEN <<>>
  ELSE IF (n - 1) % MaxCpus = p THEN Append(RoundRobin(n - 1, p), n)
       ELSE RoundRobin(n - 1, p)

FairSubmitted == MaxCpus * FairBatch
FairTaskIds == 1..(FairSubmitted + 1)
FairMachine == 1

InitFair ==
  /\ lim = [cpus |-> MaxCpus, spares |-> 0, ticks |-> 0, polls |-> 1,
            setcpus |-> FALSE]
  /\ num_cpus = MaxCpus
  /\ initialized = TRUE
  /\ setRes = "none"
  /\ tick = 0
  /\ push_counter = FairSubmitted
  /\ machine_id_counter = MaxCpus
  /\ machine_id = [p \in ProcIdx |-> MAX]
  /\ last_seen = [p \in ProcIdx |-> MAX]
  /\ injector = [p \in ProcIdx |-> RoundRobin(FairSubmitted, p)]
  /\ notif = [p \in ProcIdx |-> 1]
  /\ mpc = [s \in Slots |-> IF s <= MaxCpus THEN "spawned" ELSE "unused"]
  /\ mproc = [s \in Slots |-> IF s <= MaxCpus THEN s - 1 ELSE NoProc]
  /\ mid = [s \in Slots |-> IF s <= MaxCpus THEN NextMachineId(s - 1) ELSE MAX]
  /\ worker = [s \in Slots |-> <<>>]
  /\ hand = [s \in Slots |-> NoTask]
  /\ run_counter = [s \in Slots |-> 0]
  /\ backoff = [s \in Slots |-> 0]
  /\ site = [s \in Slots |-> "B"]
  /\ wakeTarget = [s \in Slots |-> NoProc]
  /\ marked = [s \in Slots |-> FALSE]
  /\ tstate = [t \in FairTaskIds |->
                 IF t <= FairSubmitted THEN "queued" ELSE "new"]
  /\ hint = [t \in FairTaskIds |-> MAX]
  /\ polls = [t \in FairTaskIds |-> 0]
  /\ lastPoll = [t \in FairTaskIds |-> NoProc]
  /\ tpush = [t \in FairTaskIds |-> NoProc]
  /\ fromInj = [s \in Slots |-> FALSE]
  /\ starve = [s \in Slots |-> 0]
  /\ checked = [s \in Slots |-> FALSE]
  /\ lost = {}
  /\ enterTick = [s \in Slots |-> 0]
  /\ PoolUnused
  /\ WakeUnused
  /\ PushUnused
  /\ UtilsUnused
  /\ LastExitUnused
  /\ LockUnused
  /\ BlockOnUnused

NextFair ==
  \/ \E t \in Tasks : Spawn(t) \/ PushWake(t)
  \/ Bind(FairMachine) \/ LoopTop(FairMachine) \/ Flush(FairMachine)
  \/ InjPop(FairMachine) \/ WorkerPop(FairMachine) \/ Steal(FairMachine)
  \/ Check1(FairMachine) \/ CallRun(FairMachine) \/ RunDone(FairMachine)
  \/ Check2(FairMachine) \/ Sleep(FairMachine) \/ Park(FairMachine)
  \/ AfterPark(FairMachine)

SpecFair == InitFair /\ [][NextFair]_vars

(* -------------------- the thread pool on its own ---------------------- *)
InitPool ==
  /\ PoolNew
  /\ returns \in [Callers -> BOOLEAN]
  /\ lim = [cpus |-> 1, spares |-> 0, ticks |-> 0, polls |-> 1,
            setcpus |-> FALSE]
  /\ num_cpus = lim.cpus
  /\ InitSched
  /\ WakeUnused
  /\ PushUnused
  /\ UtilsUnused
  /\ LastExitUnused
  /\ LockUnused
  /\ BlockOnUnused

NextPool ==
  \/ \E c \in Callers : TrySend(c) \/ Send(c)
  \/ \E th \in Threads : RecvTimeout(th) \/ JobReturn(th) \/ Timeout(th)
                         \/ LoadNextExit(th) \/ CasNextExit(th)
  \/ \E d \in ClockSteps : ClockAdvance(d)

SpecPool == InitPool /\ [][NextPool]_vars

(* ------------- the thread pool of src/src/thread_pool.rs -------------- *)
(* put_job and the receive loop are those of the other variant; the exit   *)
(* test is made on last_exit, for both kinds of build.                     *)
InitLastExit ==
  /\ PoolNew
  /\ returns \in [Callers -> BOOLEAN]
  /\ last_exit = 0
  /\ leRead = [th \in Threads |-> 0]
  /\ overflow_checks \in BOOLEAN
  /\ leMax = 0
  /\ lim = [cpus |-> 1, spares |-> 0, ticks |-> 0, polls |-> 1,
            setcpus |-> FALSE]
  /\ num_cpus = lim.cpus
  /\ InitSched
  /\ WakeUnused
  /\ PushUnused
  /\ UtilsUnused
  /\ LockUnused
  /\ BlockOnUnused

NextLastExit ==
  \/ \E c \in Callers : TrySend(c) \/ Send(c)
  \/ \E th \in Threads : RecvTimeout(th) \/ JobReturn(th) \/ TimeoutMs(th)
                         \/ LoadLastExit(th) \/ CasLastExit(th)
  \/ \E d \in MsSteps : ClockAdvance(d)

SpecLastExit == InitLastExit /\ [][NextLastExit]_vars

(* ------------- several replacements for one Processor ----------------- *)
(* Two Processors, three tasks spawned in a row (push_counter sent task 1 *)
(* and task 3 to Processor 0, task 2 to Processor 1).  Machine 1 is bound *)
(* to Processor 0 and has been inside task.run() of task 1 since tick 0;  *)
(* sysmon spawned a replacement at every tick from stall_threshold + 1    *)
(* on, none of which has started Processor::run yet.  Task 2 waits in the *)
(* injector of Processor 1, either never polled (the Machine of           *)
(* Processor 1 has not started) or polled once there and rescheduled by   *)
(* its waker.  The threads of Processor 0 run; the thread of Processor 1  *)
(* is not scheduled meanwhile, and every poll made ends Ready.            *)
RevokeProc == 0
OtherProc == 1
RevokeTasks == 1..3
Replacements == {s \in Slots : s > 2}
StalledSince == STALL_THRESHOLD + Cardinality(Replacements)

InitRevoke ==
  /\ lim = [cpus |-> 2, spares |-> Cardinality(Replacements),
            ticks |-> StalledSince, polls |-> 1, setcpus |-> FALSE]
  /\ num_cpus = 2
  /\ initialized = TRUE
  /\ setRes = "none"
  /\ tick = StalledSince
  /\ push_counter = 3
  /\ machine_id_counter = MaxMachines
  /\ hint \in {[t \in RevokeTasks |-> IF t = 1 THEN RevokeProc ELSE MAX],
               [t \in RevokeTasks |-> IF t = 1 THEN RevokeProc
                                      ELSE IF t = 2 THEN OtherProc ELSE MAX]}
  /\ polls = [t \in RevokeTasks |-> IF hint[t] = MAX THEN 0 ELSE 1]
  /\ lastPoll = [t \in RevokeTasks |-> IF hint[t] = MAX THEN NoProc ELSE hint[t]]
  /\ tstate = [t \in RevokeTasks |-> IF t = 1 THEN "running" ELSE "queued"]
  /\ tpush = [t \in RevokeTasks |-> NoProc]
  /\ machine_id = [p \in ProcIdx |->
                     IF p = RevokeProc THEN NextMachineId(0)
                     ELSE IF p = OtherProc /\ hint[2] = OtherProc
                          THEN NextMachineId(1) ELSE MAX]
  /\ last_seen = [p \in ProcIdx |->
                    IF p = RevokeProc THEN 0
                    ELSE IF p = OtherProc /\ hint[2] = OtherProc
                         THEN StalledSince ELSE MAX]
  /\ injector = [p \in ProcIdx |->
                   IF p = RevokeProc THEN <<3>>
                   ELSE IF p = OtherProc THEN <<2>> ELSE <<>>]
  /\ notif = [p \in ProcIdx |-> IF p \in {RevokeProc, OtherProc} THEN 1 ELSE 0]
  /\ mpc = [s \in Slots |->
              IF s = 1 THEN "in_run"
              ELSE IF s = 2 THEN (IF hint[2] = OtherProc THEN "loop" ELSE "spawned")
                   ELSE "spawned"]
  /\ mproc = [s \in Slots |-> IF s = 2 THEN OtherProc ELSE RevokeProc]
  /\ mid = [s \in Slots |-> NextMachineId(s - 1)]
  /\ worker = [s \in Slots |-> <<>>]
  /\ hand = [s \in Slots |-> IF s = 1 THEN 1 ELSE NoTask]
  /\ run_counter = [s \in Slots |->
                      IF s = 2 /\ hint[2] = OtherProc THEN 1 ELSE 0]
  /\ backoff = [s \in Slots |-> 0]
  /\ site = [s \in Slots |-> "B"]
  /\ wakeTarget = [s \in Slots |-> NoProc]
  /\ marked = [s \in Slots |-> FALSE]
  /\ fromInj = [s \in Slots |-> FALSE]
  /\ starve = [s \in Slots |-> 0]
  /\ checked = [s \in Slots |-> s = 1]
  /\ lost = {}
  /\ enterTick = [s \in Slots |-> 0]
  /\ PoolUnused
  /\ WakeUnused
  /\ PushUnused
  /\ UtilsUnused
  /\ LastExitUnused
  /\ LockUnused
  /\ BlockOnUnused

NextRevoke ==
  \E m \in {1} \cup Replacements :
    \/ Bind(m) \/ LoopTop(m) \/ Flush(m) \/ InjPop(m)
    \/ WorkerPop(m) \/ Steal(m) \/ Check1(m) \/ CallRun(m)
    \/ RunDone(m) \/ PushBack(m) \/ MachineWake(m) \/ Check2(m)
    \/ Sleep(m) \/ Park(m) \/ AfterPark(m)

SpecRevoke == InitRevoke /\ [][NextRevoke]_vars

(* ------------------------- concurrent pushes -------------------------- *)
(* Every Machine is parked.  Submitter 1 spawns num_cpus tasks one after  *)
(* the other; submitter 2, on another thread, pushes two tasks, each      *)
(* either new (spawn) or polled before on some Processor and now woken    *)
(* (its waker calls System::push).  Some hint-less pushes were made       *)
(* earlier, by tasks that have finished.                                  *)
PushTasks == 1..(MaxCpus + 2)
Submitter(t) == IF t <= MaxCpus THEN 1 ELSE 2

InitPush ==
  /\ lim = [cpus |-> MaxCpus, spares |-> 0, ticks |-> 0, polls |-> MaxPolls,
            setcpus |-> FALSE]
  /\ num_cpus = MaxCpus
  /\ initialized = TRUE
  /\ setRes = "none"
  /\ tick = 0
  /\ push_counter \in 0..(MaxCpus - 1)
  /\ machine_id_counter = MaxCpus
  /\ machine_id = [p \in ProcIdx |-> NextMachineId(p)]
  /\ last_seen = [p \in ProcIdx |-> MAX]
  /\ injector = [p \in ProcIdx |-> <<>>]
  /\ notif = [p \in ProcIdx |-> 0]
  /\ mpc = [s \in Slots |-> IF s <= MaxCpus THEN "park" ELSE "unused"]
  /\ mproc = [s \in Slots |-> IF s <= MaxCpus THEN s - 1 ELSE NoProc]
  /\ mid = [s \in Slots |-> IF s <= MaxCpus THEN NextMachineId(s - 1) ELSE MAX]
  /\ worker = [s \in Slots |-> <<>>]
  /\ hand = [s \in Slots |-> NoTask]
  /\ run_counter = [s \in Slots |-> 0]
  /\ backoff = [s \in Slots |-> IF s <= MaxCpus THEN SnoozeLimit ELSE 0]
  /\ site = [s \in Slots |-> "B"]
  /\ wakeTarget = [s \in Slots |-> NoProc]
  /\ marked = [s \in Slots |-> FALSE]
  /\ hint \in {h \in [PushTasks -> {MAX} \cup ProcIdx] :
                 \A t \in PushTasks : Submitter(t) = 1 => h[t] = MAX}
  /\ polls = [t \in PushTasks |-> IF hint[t] = MAX THEN 0 ELSE 1]
  /\ lastPoll = [t \in PushTasks |-> IF hint[t] = MAX THEN NoProc ELSE hint[t]]
  /\ tstate = [t \in PushTasks |-> IF hint[t] = MAX THEN "new" ELSE "waiting"]
  /\ tpush = [t \in PushTasks |-> NoProc]
  /\ fromInj = [s \in Slots |-> FALSE]
  /\ starve = [s \in Slots |-> 0]
  /\ checked = [s \in Slots |-> FALSE]
  /\ lost = {}
  /\ enterTick = [s \in Slots |-> 0]
  /\ route = [t \in PushTasks |-> NoProc]
  /\ ticket = [t \in PushTasks |-> Never]
  /\ PoolUnused
  /\ WakeUnused
  /\ UtilsUnused
  /\ LastExitUnused
  /\ LockUnused
  /\ BlockOnUnused

(* System::push(t) up to and including injector.push, called by the       *)
(* submitter of t once its previous push has returned.                    *)
Push(t) ==
  /\ tstate[t] \in {"new", "waiting"}
  /\ \A u \in Tasks :
       (Submitter(u) = Submitter(t) /\ u < t)
         => tstate[u] \notin {"new", "waiting"} /\ tpush[u] = NoProc
  /\ PushInjector(t)
  /\ tstate' = [tstate EXCEPT ![t] = "queued"]
  /\ tpush' = [tpush EXCEPT ![t] = PushTarget(t)]
  /\ route' = [route EXCEPT ![t] = PushTarget(t)]
  /\ ticket' = [ticket EXCEPT ![t] =
                  IF HintInRange(t) THEN Never ELSE push_counter]
  /\ UNCHANGED <<lim, initialized, num_cpus, setRes, tick,
                 machine_id_counter, machine_id, last_seen, notif, machVars,
                 hint, polls, lastPoll, histVars>>
  /\ UNCHANGED <<poolVars, wakeVars, utilVars, exitVars, lockVars,
                 blockVars>>

NextPush ==
  \E t \in Tasks :
    \/ Push(t)
    \/ PushWake(t)

SpecPush == InitPush /\ [][NextPush]_vars

(* ------------------ wake_up calls on a parked Machine ----------------- *)
(* Every task is done and the Machine of Processor 0 went through         *)
(* get_tasks!, steal and the snoozes and is blocked in recv (line 180).   *)
(* Producers (sysmon, the wake_up half of a push) call wake_up on that    *)
(* Processor at any moment; the Machine receives and returns from recv.   *)
WakeMachine == 1
WakeProc == 0

InitWake ==
  /\ lim = [cpus |-> 1, spares |-> 0, ticks |-> 0, polls |-> 1,
            setcpus |-> FALSE]
  /\ num_cpus = 1
  /\ initialized = TRUE
  /\ setRes = "none"
  /\ tick = 0
  /\ push_counter = NumTasks
  /\ machine_id_counter = 1
  /\ machine_id = [p \in ProcIdx |-> IF p = WakeProc THEN NextMachineId(0) ELSE MAX]
  /\ last_seen = [p \in ProcIdx |-> MAX]
  /\ injector = [p \in ProcIdx |-> <<>>]
  /\ notif = [p \in ProcIdx |-> 0]
  /\ mpc = [s \in Slots |-> IF s = WakeMachine THEN "park" ELSE "unused"]
  /\ mproc = [s \in Slots |-> IF s = WakeMachine THEN WakeProc ELSE NoProc]
  /\ mid = [s \in Slots |-> IF s = WakeMachine THEN NextMachineId(0) ELSE MAX]
  /\ worker = [s \in Slots |-> <<>>]
  /\ hand = [s \in Slots |-> NoTask]
  /\ run_counter = [s \in Slots |-> 0]
  /\ backoff = [s \in Slots |-> IF s = WakeMachine THEN SnoozeLimit ELSE 0]
  /\ site = [s \in Slots |-> "B"]
  /\ wakeTarget = [s \in Slots |-> NoProc]
  /\ marked = [s \in Slots |-> FALSE]
  /\ tstate = [t \in 1..NumTasks |-> "done"]
  /\ hint = [t \in 1..NumTasks |-> WakeProc]
  /\ polls = [t \in 1..NumTasks |-> 1]
  /\ lastPoll = [t \in 1..NumTasks |-> WakeProc]
  /\ tpush = [t \in 1..NumTasks |-> NoProc]
  /\ fromInj = [s \in Slots |-> FALSE]
  /\ starve = [s \in Slots |-> 0]
  /\ checked = [s \in Slots |-> FALSE]
  /\ lost = {}
  /\ enterTick = [s \in Slots |-> 0]
  /\ PoolUnused
  /\ WakeUnused
  /\ PushUnused
  /\ UtilsUnused
  /\ LastExitUnused
  /\ LockUnused
  /\ BlockOnUnused

(* Processor::wake_up, lines 202-204, called by producer c                *)
WakeUp(c) ==
  /\ wcalls[c] < MaxWakeCalls
  /\ wret' = [wret EXCEPT ![c] =
               IF wake_up_delivered(notif, WakeProc) THEN "ok" ELSE "full"]
  /\ wtrue' = IF wake_up_delivered(notif, WakeProc) THEN wtrue + 1 ELSE wtrue
  /\ notif' = wake_up(notif, WakeProc)
  /\ wcalls' = [wcalls EXCEPT ![c] = @ + 1]
  /\ UNCHANGED <<sysVars, machine_id, last_seen, injector, machVars, taskVars,
                 histVars, poolVars, pushVars, utilVars, exitVars, lockVars,
                 blockVars>>

NextWake ==
  \/ \E c \in Producers : WakeUp(c)
  \/ Park(WakeMachine)
  \/ AfterPark(WakeMachine)

SpecWake == InitWake /\ [][NextWake]_vars

(* ----------------------------- lelet-utils ---------------------------- *)
(* abort_on_panic(f), where f polls a Yields(yk) future until it is       *)
(* Ready and returns, with a waker that counts its calls.  panicAt = j    *)
(* makes f panic where its j-th poll would be; 0 (or a j that f never     *)
(* reaches) makes f return normally.                                      *)
PanicPoints == 0..(MaxYields + 2)
Panics == panicAt \in 1..(yk + 1)

(* A poll that is Ready one call early.                                   *)
Yields_ready_early(n) == n <= 1

(* Yields::poll, line 77                                                  *)
Yields_is_ready(n) == n = 0

(* A guard that is defused on every way out of f.                         *)
Bomb_always_forgotten(panicked) == "forgotten"

(* abort_on_panic, lines 27-31: unwinding out of f drops the Bomb,        *)
(* a normal return reaches forget(bomb).                                  *)
Bomb_after_f(panicked) == IF panicked THEN "dropped" ELSE "forgotten"

InitUtils ==
  /\ upc = "call"
  /\ yk \in 0..MaxYields
  /\ panicAt \in PanicPoints
  /\ y0 = yk
  /\ npoll = 0
  /\ nwake = 0
  /\ ures = "none"
  /\ bomb = "none"
  /\ aborted = FALSE
  /\ lim = [cpus |-> 1, spares |-> 0, ticks |-> 0, polls |-> 1,
            setcpus |-> FALSE]
  /\ num_cpus = lim.cpus
  /\ InitSched
  /\ PoolUnused
  /\ WakeUnused
  /\ PushUnused
  /\ LastExitUnused
  /\ LockUnused
  /\ BlockOnUnused

(* abort_on_panic, line 27: let bomb = Bomb                               *)
BombNew ==
  /\ upc = "call"
  /\ bomb' = "armed"
  /\ upc' = "in_f"
  /\ UNCHANGED <<yk, panicAt, y0, npoll, nwake, ures, aborted>>
  /\ UNCHANGED <<schedVars, poolVars, wakeVars, pushVars, exitVars,
                 lockVars, blockVars>>

(* Yields::poll, lines 76-84, called by f                                 *)
YieldsPoll ==
  /\ upc = "in_f"
  /\ ures # "Ready"
  /\ panicAt # npoll + 1
  /\ npoll' = npoll + 1
  /\ IF Yields_is_ready(y0)
     THEN /\ ures' = "Ready"
          /\ UNCHANGED <<y0, nwake>>
     ELSE /\ y0' = y0 - 1
          /\ nwake' = nwake + 1
          /\ ures' = "Pending"
  /\ UNCHANGED <<upc, yk, panicAt, bomb, aborted>>
  /\ UNCHANGED <<schedVars, poolVars, wakeVars, pushVars, exitVars,
                 lockVars, blockVars>>

(* abort_on_panic, line 29: f() panics                                    *)
FPanics ==
  /\ upc = "in_f"
  /\ ures # "Ready"
  /\ panicAt = npoll + 1
  /\ upc' = "unwind"
  /\ UNCHANGED <<yk, panicAt, y0, npoll, nwake, ures, bomb, aborted>>
  /\ UNCHANGED <<schedVars, poolVars, wakeVars, pushVars, exitVars,
                 lockVars, blockVars>>

(* abort_on_panic, line 29: f() returns                                   *)
FReturns ==
  /\ upc = "in_f"
  /\ ures = "Ready"
  /\ upc' = "after_f"
  /\ UNCHANGED <<yk, panicAt, y0, npoll, nwake, ures, bomb, aborted>>
  /\ UNCHANGED <<schedVars, poolVars, wakeVars, pushVars, exitVars,
                 lockVars, blockVars>>

(* The unwinding leaves abort_on_panic: Bomb::drop, lines 20-25, calls    *)
(* abort().                                                               *)
BombDrop ==
  /\ upc = "unwind"
  /\ bomb' = Bomb_after_f(TRUE)
  /\ aborted' = (bomb' = "dropped")
  /\ upc' = IF aborted' THEN "aborted" ELSE "unwound"
  /\ UNCHANGED <<yk, panicAt, y0, npoll, nwake, ures>>
  /\ UNCHANGED <<schedVars, poolVars, wakeVars, pushVars, exitVars,
                 lockVars, blockVars>>

(* abort_on_panic, lines 31-32: forget(bomb), and the return              *)
Forget ==
  /\ upc = "after_f"
  /\ bomb' = Bomb_after_f(FALSE)
  /\ aborted' = (bomb' = "dropped")
  /\ upc' = IF aborted' THEN "aborted" ELSE "returned"
  /\ UNCHANGED <<yk, panicAt, y0, npoll, nwake, ures>>
  /\ UNCHANGED <<schedVars, poolVars, wakeVars, pushVars, exitVars,
                 lockVars, blockVars>>

NextUtils ==
  \/ BombNew \/ YieldsPoll \/ FPanics \/ FReturns \/ BombDrop \/ Forget

SpecUtils == InitUtils /\ [][NextUtils]_vars

(* ============================== claims ================================ *)

(* ------------------------------ SimpleLock ---------------------------- *)
(* Threads share one SimpleLock.  A SimpleLockGuard is not Send: it is     *)
(* dropped by the thread that got it.  guards[t] counts the guards thread  *)
(* t holds.                                                                *)
GuardExists == \E t \in Lockers : guards[t] > 0

(* a try_lock that ignores what the swap returned                         *)
try_lock_always_some(old) == TRUE
(* try_lock, lines 123-130: the swap returned `old`                        *)
try_lock_is_some(old) == ~old

(* SimpleLock::new, lines 104-109                                          *)
InitLock ==
  /\ LockUnused
  /\ BlockOnUnused
  /\ lim = [cpus |-> 1, spares |-> 0, ticks |-> 0, polls |-> 1,
            setcpus |-> FALSE]
  /\ num_cpus = lim.cpus
  /\ InitSched
  /\ PoolUnused
  /\ WakeUnused
  /\ PushUnused
  /\ UtilsUnused
  /\ LastExitUnused
  /\ BlockOnUnused

(* try_lock, lines 122-131: locked.swap(true), then None or a guard        *)
TryLock(t) ==
  /\ lcalls[t] < MaxLockCalls
  /\ locked' = TRUE
  /\ IF try_lock_is_some(locked)
     THEN /\ guards' = [guards EXCEPT ![t] = @ + 1]
          /\ lret' = [lret EXCEPT ![t] = "Some"]
     ELSE /\ lret' = [lret EXCEPT ![t] = "None"]
          /\ UNCHANGED guards
  /\ lcalls' = [lcalls EXCEPT ![t] = @ + 1]
  /\ UNCHANGED <<schedVars, poolVars, wakeVars, pushVars, utilVars, exitVars,
                 blockVars>>

(* is_locked, lines 135-137                                                *)
IsLocked(t) ==
  /\ lcalls[t] < MaxLockCalls
  /\ lret' = [lret EXCEPT ![t] = IF locked THEN "true" ELSE "false"]
  /\ lcalls' = [lcalls EXCEPT ![t] = @ + 1]
  /\ UNCHANGED <<locked, guards, schedVars, poolVars, wakeVars, pushVars,
                 utilVars, exitVars,
                 blockVars>>

(* SimpleLockGuard::drop, lines 162-164                                    *)
GuardDrop(t) ==
  /\ guards[t] > 0
  /\ locked' = FALSE
  /\ guards' = [guards EXCEPT ![t] = @ - 1]
  /\ UNCHANGED <<lret, lcalls, schedVars, poolVars, wakeVars, pushVars,
                 utilVars, exitVars,
                 blockVars>>

NextLock == \E t \in Lockers : TryLock(t) \/ IsLocked(t) \/ GuardDrop(t)

SpecLock == InitLock /\ [][NextLock]_vars

(* ------------------------------ block_on ------------------------------ *)
(* The calling thread polls a future that is Pending fk more times.  An    *)
(* "inline" future calls wake_by_ref inside poll, as Yields does; a        *)
(* "thread" future hands a Waker clone to another thread, which calls wake *)
(* at any time after the poll has started.  Parker's Mutex makes each of   *)
(* lines 203 and 209-213 one step; Condvar::wait releases the Mutex and    *)
(* blocks, and may return without a notification.                          *)
FutureKinds == {"inline", "thread"}

(* a park that waits whatever the flag says                                *)
park_always_waits(r) == TRUE
(* Parker::park, line 210: the loop condition                              *)
park_must_wait(r) == ~r

(* where the calling thread was when an unpark set the flag                *)
FlagSetAt(pos) == wokenAt \cup {pos}

InitBlockOn ==
  /\ bpc = "poll"
  /\ runnable = FALSE
  /\ fk \in 0..MaxYields
  /\ f0 = fk
  /\ fkind \in FutureKinds
  /\ bpolls = 0
  /\ wpc = "idle"
  /\ owed = 0
  /\ wokenAt = {}
  /\ lim = [cpus |-> 1, spares |-> 0, ticks |-> 0, polls |-> 1,
            setcpus |-> FALSE]
  /\ num_cpus = lim.cpus
  /\ InitSched
  /\ PoolUnused
  /\ WakeUnused
  /\ PushUnused
  /\ UtilsUnused
  /\ LastExitUnused
  /\ LockUnused

(* block_on, lines 253-255: f.poll(cx) starts; Ready returns the value;    *)
(* an inline future runs unpark (lines 203-204) before it returns Pending, *)
(* a thread future gives its Waker away                                    *)
BlockOnPoll ==
  /\ bpc = "poll"
  /\ bpolls' = bpolls + 1
  /\ IF Yields_is_ready(fk)
     THEN /\ bpc' = "returned"
          /\ UNCHANGED <<runnable, fk, owed, wokenAt>>
     ELSE /\ bpc' = "pending"
          /\ fk' = fk - 1
          /\ IF fkind = "inline"
             THEN /\ runnable' = TRUE
                  /\ wokenAt' = FlagSetAt("poll")
                  /\ UNCHANGED owed
             ELSE /\ owed' = owed + 1
                  /\ UNCHANGED <<runnable, wokenAt>>
  /\ UNCHANGED <<f0, fkind, wpc, schedVars, poolVars, wakeVars, pushVars,
                 utilVars, exitVars, lockVars>>

(* block_on, line 254: poll has returned Pending and park is called        *)
PollPending ==
  /\ bpc = "pending"
  /\ bpc' = "park"
  /\ UNCHANGED <<runnable, fk, f0, fkind, bpolls, wpc, owed, wokenAt,
                 schedVars, poolVars, wakeVars, pushVars, utilVars, exitVars,
                 lockVars>>

(* Parker::park, lines 209-213: with the Mutex held, wait while the flag   *)
(* is false, else clear it and return to the loop of block_on              *)
Park_block_on ==
  /\ bpc = "park"
  /\ IF park_must_wait(runnable)
     THEN /\ bpc' = "wait"
          /\ UNCHANGED runnable
     ELSE /\ bpc' = "poll"
          /\ runnable' = FALSE
  /\ UNCHANGED <<fk, f0, fkind, bpolls, wpc, owed, wokenAt, schedVars,
                 poolVars, wakeVars, pushVars, utilVars, exitVars, lockVars>>

(* Condvar::wait, line 211, returns without a notification                 *)
SpuriousWake ==
  /\ bpc = "wait"
  /\ bpc' = "park"
  /\ UNCHANGED <<runnable, fk, f0, fkind, bpolls, wpc, owed, wokenAt,
                 schedVars, poolVars, wakeVars, pushVars, utilVars, exitVars,
                 lockVars>>

(* Parker::unpark, line 203, on the thread that holds the Waker            *)
WakerUnpark ==
  /\ wpc = "idle"
  /\ owed > 0
  /\ runnable' = TRUE
  /\ owed' = owed - 1
  /\ wpc' = "notify"
  /\ wokenAt' = FlagSetAt(bpc)
  /\ UNCHANGED <<bpc, fk, f0, fkind, bpolls, schedVars, poolVars, wakeVars,
                 pushVars, utilVars, exitVars, lockVars>>

(* Parker::unpark, line 204: notify_one wakes the thread in Condvar::wait  *)
WakerNotify ==
  /\ wpc = "notify"
  /\ wpc' = "idle"
  /\ bpc' = IF bpc = "wait" THEN "park" ELSE bpc
  /\ UNCHANGED <<runnable, fk, f0, fkind, bpolls, owed, wokenAt, schedVars,
                 poolVars, wakeVars, pushVars, utilVars, exitVars, lockVars>>

CallerStep == BlockOnPoll \/ PollPending \/ Park_block_on
WakerStep == WakerUnpark \/ WakerNotify

NextBlockOn ==
  \/ BlockOnPoll
  \/ PollPending
  \/ Park_block_on
  \/ SpuriousWake
  \/ WakerUnpark
  \/ WakerNotify

(* Both threads are scheduled by the operating system: neither is held     *)
(* back for ever while it can take a step.                                 *)
SpecBlockOn ==
  /\ InitBlockOn
  /\ [][NextBlockOn]_vars
  /\ WF_vars(CallerStep)
  /\ WF_vars(WakerStep)

(* Where a task is held: the injectors, the worker deques of the live     *)
(* Machines, the hands of the Machines (a task being polled stays in the  *)
(* hand of its Machine), and the set of tasks waiting for their waker.    *)
RECURSIVE Count(_, _)
Count(s, t) ==
  IF s = <<>> THEN 0 ELSE (IF Head(s) = t THEN 1 ELSE 0) + Count(Tail(s), t)

RECURSIVE SumOver(_, _, _)
SumOver(f, S, t) ==
  IF S = {} THEN 0
  ELSE LET x == CHOOSE y \in S : TRUE
       IN Count(f[x], t) + SumOver(f, S \ {x}, t)

Holders(t) ==
  SumOver(injector, ProcIdx, t)
  + SumOver(worker, {m \in Slots : Live(m)}, t)
  + Cardinality({m \in Slots : hand[m] = t})
  + (IF tstate[t] = "waiting" THEN 1 ELSE 0)

(* Nothing is left to do for the tasks submitted so far: every Machine is *)
(* parked with no signal pending, has returned, or was never created, and *)
(* no submitter is between its injector.push and its wake_up.             *)
Quiescent ==
  /\ initialized
  /\ \A m \in Slots :
       \/ mpc[m] \in {"unused", "exited"}
       \/ mpc[m] = "park" /\ notif[mproc[m]] = 0
  /\ \A t \in Tasks : tpush[t] = NoProc /\ tstate[t] # "waiting"

(* C1: a task handed to System::push is passed to task.run() at least     *)
(* once; stated on the runs that came to rest: when nothing is left to    *)
(* do, every submitted task has been polled.                              *)
C1_NoSilentDrop ==
  Quiescent => \A t \in Tasks : tstate[t] # "new" => polls[t] >= 1

(* C2: every submitted task that has not finished is held in exactly one  *)
(* place that a pop, a steal or a waker can reach.                        *)
C2_TaskConservation ==
  \A t \in Tasks : tstate[t] \notin {"new", "done"} => Holders(t) = 1

(* The Machine bound to its Processor is inside task.run().               *)
BoundInRun(m) ==
  /\ mpc[m] = "in_run"
  /\ mproc[m] \in Procs
  /\ still_on_machine(mproc[m], m)

(* A Machine created for the Processor of m after m.                      *)
Successor(m, r) ==
  /\ r # m
  /\ mpc[r] # "unused"
  /\ mproc[r] = mproc[m]
  /\ mid[r] > mid[m]

C4_AtMostOneProgress ==
  /\ \A p \in Procs :
       Cardinality({m \in Slots : /\ mproc[m] = p
                                  /\ mid[m] = machine_id[p]
                                  /\ mpc[m] = "sethint"}) <= 1
  /\ \A m \in Slots : mpc[m] \in {"sethint", "in_run"} => checked[m]

(* Two Machines of one Processor are both past the check of line 92, the  *)
(* older one revoked in between.                                          *)
C4_Witness ==
  \E m1, m2 \in Slots :
    /\ m1 # m2
    /\ mproc[m1] = mproc[m2]
    /\ mpc[m1] = "sethint"
    /\ mpc[m2] = "sethint"

(* C5: once a task was polled by Processor k its hint is k until it is    *)
(* polled again.                                                          *)
C5_HintAfterPoll ==
  \A t \in Tasks : polls[t] > 0 => hint[t] = lastPoll[t]

(* A task polled on one Processor is in the hand of a Machine of another  *)
(* Processor (stolen), its hint still naming the first.                   *)
C5_Witness ==
  \E t \in Tasks : \E m \in Slots :
    /\ hand[m] = t
    /\ mpc[m] = "check1"
    /\ polls[t] > 0
    /\ lastPoll[t] # mproc[m]
    /\ hint[t] = lastPoll[t]

(* C6: a Machine polls at most MAX_RUNS tasks in a row that did not come  *)
(* from the injector of its Processor while that injector holds a task,   *)
(* so the next poll, at most the MAX_RUNS + 1st, is of an injector task;  *)
(* run_counter never passes MAX_RUNS and worker.pop is not reached with   *)
(* run_counter at MAX_RUNS.                                               *)
C6_InjectorFairness ==
  \A m \in Slots :
    /\ starve[m] <= MAX_RUNS
    /\ run_counter[m] <= MAX_RUNS
    /\ mpc[m] = "wpop" => run_counter[m] < MAX_RUNS

(* After MAX_RUNS polls in a row of stolen tasks, with the worker deque   *)
(* still holding some, the Machine has a task of its own injector in      *)
(* hand.                                                                  *)
C6_Witness ==
  \E m \in Slots :
    /\ mpc[m] = "sethint"
    /\ fromInj[m]
    /\ starve[m] = MAX_RUNS
    /\ worker[m] # <<>>

(* C7: once the System is in use no step changes the number of            *)
(* Processors, and a set_num_cpus call can only end in an error.          *)
C7_FixedAfterFirstUse ==
  [][initialized => /\ num_cpus' = num_cpus
                    /\ setRes' \in {setRes, "err"}]_vars

(* A set_num_cpus call made after the first spawn was refused.            *)
C7_Witness == initialized /\ setRes = "err" /\ num_cpus = MaxCpus

(* C8: no two pool threads return from Pool::run less than IDLE_THRESHOLD *)
(* apart.                                                                 *)
C8_DrainRate ==
  \A a \in Threads : \A b \in Threads :
    (a # b /\ tpc[a] = "exited" /\ tpc[b] = "exited" /\ exitAt[a] <= exitAt[b])
      => exitAt[b] - exitAt[a] >= IdleUnits

(* C9: a caller blocked in the fallback send has a pool thread that       *)
(* comes to recv_timeout without another spawn_box call: one on its way   *)
(* there, or one whose job returns.                                       *)
C9_HandsJobOver ==
  \A c \in Callers :
    cpc[c] = "send"
      => \E th \in Threads :
           \/ tpc[th] \in {"loop", "load", "cas"}
           \/ tpc[th] = "job" /\ returns[running[th]]

(* C10: after mark_blocking the ready tasks of the caller's Processor are *)
(* polled by the new Machine while the caller is inside task.run(): the   *)
(* new Machine, bound and with nothing more to pop, does not park while   *)
(* one of them is still queued.                                           *)
C10_MarkBlockingHandOff ==
  \A m \in Slots : \A r \in Slots :
    ( /\ marked[m]
      /\ mpc[m] = "in_run"
      /\ Successor(m, r)
      /\ still_on_machine(mproc[r], r)
      /\ mpc[r] = "park"
      /\ notif[mproc[r]] = 0
      /\ \A t \in Tasks : tpush[t] = NoProc )
    => worker[m] = <<>> /\ injector[mproc[m]] = <<>>

(* The Machine whose id is in machine_id[p]: alive and created for p.     *)
BoundTo(p, m) ==
  /\ mpc[m] # "unused"
  /\ mid[m] = machine_id[p]
  /\ mproc[m] = p
  /\ Live(m)

(* C11: every Processor is either unbound, machine_id and last_seen both  *)
(* MAX, or machine_id is the id of exactly one Machine, which is inside   *)
(* Processor::run of that Processor.                                      *)
C11_ProcessorState ==
  \A p \in Procs :
    \/ machine_id[p] = MAX /\ last_seen[p] = MAX
    \/ /\ machine_id[p] # MAX
       /\ Cardinality({m \in Slots : mpc[m] # "unused" /\ mid[m] = machine_id[p]}) = 1
       /\ \E m \in Slots : BoundTo(p, m)

(* A Processor rebound to a second Machine, which is parked (last_seen    *)
(* MAX, machine_id its id) while the first Machine is still alive.        *)
C11_Witness ==
  \E p \in Procs : \E m, r \in Slots :
    /\ BoundTo(p, r)
    /\ mpc[r] = "park"
    /\ last_seen[p] = MAX
    /\ Successor(m, r)
    /\ Live(m)

(* The wake channel holds at most one signal; while the Machine is        *)
(* blocked in recv every stored signal is still in the channel, and once  *)
(* it has returned from recv it has received one signal and the others    *)
(* stored are in the channel.                                             *)
WakeChannelInv ==
  /\ notif[WakeProc] \in {0, 1}
  /\ mpc[WakeMachine] = "park" => wtrue = notif[WakeProc]
  /\ mpc[WakeMachine] # "park" => wtrue = 1 + notif[WakeProc]

(* A wake_up call returns true when the channel was empty, and then the   *)
(* channel holds a signal; it returns false when a signal was pending,    *)
(* and then nothing changed.                                              *)
WakeUpStep ==
  \A c \in Producers :
    wcalls'[c] # wcalls[c] =>
      /\ notif[WakeProc] = 0 => wret'[c] = "ok" /\ notif'[WakeProc] = 1
      /\ notif[WakeProc] = 1 => wret'[c] = "full" /\ notif' = notif

(* C12: wake_up returns true exactly when the channel was empty and the   *)
(* signal was stored, false with nothing changed otherwise; whatever the  *)
(* number of wake_up calls on a parked Processor, its Machine receives    *)
(* exactly one signal from recv.                                          *)
C12_IdempotentWakeUp == []WakeChannelInv /\ [][WakeUpStep]_vars

(* Both producers called wake_up while the Machine was blocked in recv:   *)
(* one call stored the signal, the other found it pending, and the        *)
(* Machine has received it.                                               *)
C12_Witness ==
  /\ mpc[WakeMachine] = "wake"
  /\ \E c, d \in Producers : wret[c] = "ok" /\ wret[d] = "full"
  /\ \A c \in Producers : wcalls[c] >= 1
  /\ wtrue = 1

(* C13: abort_on_panic(f) calls abort exactly when f panics; when f       *)
(* returns the Bomb is forgotten, abort is not called and abort_on_panic  *)
(* returns.                                                               *)
C13_AbortIffPanic ==
  /\ aborted => upc = "aborted"
  /\ upc \in {"aborted", "unwound", "returned"} =>
       /\ aborted <=> Panics
       /\ Panics => bomb = "dropped"
       /\ ~Panics => bomb = "forgotten" /\ upc = "returned"
  /\ upc \in {"unwind", "aborted", "unwound"} => Panics
  /\ upc \in {"after_f", "returned"} => ~Panics

(* f panicked after some polls and the process was aborted.               *)
C13_Witness == upc = "aborted" /\ npoll >= 1 /\ aborted

(* C20: Yields(k) is Pending on each of its first k polls, calling the    *)
(* waker once in each, and Ready on poll k + 1.                           *)
C20_YieldsPolls ==
  /\ npoll <= yk + 1
  /\ nwake = (IF npoll <= yk THEN npoll ELSE yk)
  /\ y0 = yk - nwake
  /\ ures = "Ready" <=> npoll = yk + 1
  /\ ures = "Pending" <=> (npoll >= 1 /\ npoll <= yk)

(* Yields(5) was polled six times: five Pending, each with one waker      *)
(* call, and Ready on the sixth.                                          *)
C20_Witness ==
  /\ yk = 5
  /\ npoll = 6
  /\ nwake = 5
  /\ ures = "Ready"
  /\ upc = "returned"

(* Some push_then_wake_up on Processor p has pushed and not yet called    *)
(* wake_up.                                                               *)
PendingWake(p) ==
  \/ \E t \in Tasks : tpush[t] = p
  \/ \E r \in Slots : mpc[r] = "mwake" /\ wakeTarget[r] = p

(* C14: the Machine bound to a Processor is never blocked in recv with    *)
(* the wake channel empty while the injector of the Processor holds a     *)
(* task whose push_then_wake_up has returned.                             *)
C14_NoLostWakeUp ==
  \A p \in Procs : \A m \in Slots :
    (BoundTo(p, m) /\ mpc[m] = "park" /\ notif[p] = 0 /\ ~PendingWake(p))
      => injector[p] = <<>>

(* A Machine inside Processor::run whose Processor carries the id of      *)
(* another Machine: a newer Machine has run line 69.                      *)
Revoked(m) ==
  /\ Live(m)
  /\ ~still_on_machine(mproc[m], m)

(* C16: once a newer Machine has stored its id, the Machine bound before  *)
(* takes no task out of the injector of the Processor (system.pop) and    *)
(* steals none from its peers (system.steal).                             *)
C16_OnlyNewMachineAdvances ==
  [][\A m \in Slots :
       (Revoked(m) /\ mpc[m] \in {"ipop", "steal"}) => mpc'[m] # "check1"]_vars

(* C18: while the Machine bound to a Processor is blocked in recv inside  *)
(* sleep, last_seen of the Processor is MAX.                              *)
C18_IdleWhileParked ==
  \A p \in Procs : \A m \in Slots :
    (BoundTo(p, m) /\ mpc[m] = "park") => get_last_seen(p) = MAX

(* C15, as stated: the task a revoked Machine gives back is put into the  *)
(* injector of the Processor that Machine was running.                    *)
C15_BackToSameProcessor ==
  [][\A m \in Slots :
       (mpc[m] = "pushback" /\ mpc'[m] # "pushback")
         => hand[m] \in SeqToSet(injector'[mproc[m]])]_vars

(* The Machines that took the false branch of line 92 and have not yet    *)
(* left Processor::run.                                                   *)
GivingBack(m) ==
  \/ mpc[m] = "pushback"
  \/ mpc[m] \in {"mwake", "check2"} /\ ~checked[m]

(* The Processor System::push routes task t to.                           *)
RoutedTo(t) == IF hint[t] \in Procs THEN hint[t] ELSE push_counter % num_cpus

GiveBackStep ==
  \A m \in Slots :
    /\ (mpc[m] = "check1" /\ Revoked(m) /\ mpc'[m] # "check1")
         => mpc'[m] = "pushback" /\ polls' = polls
    /\ (mpc[m] = "pushback" /\ mpc'[m] # "pushback")
         => /\ injector'[RoutedTo(hand[m])] =
                 Append(injector[RoutedTo(hand[m])], hand[m])
            /\ \A q \in Procs \ {RoutedTo(hand[m])} : injector'[q] = injector[q]
            /\ polls' = polls
            /\ hand'[m] = NoTask
            /\ wakeTarget'[m] = RoutedTo(hand[m])
    /\ (mpc[m] = "mwake" /\ ~checked[m] /\ mpc'[m] # "mwake")
         => notif'[wakeTarget[m]] = 1 /\ mpc'[m] = "check2"
    /\ (mpc[m] = "check2" /\ ~checked[m] /\ mpc'[m] # "check2")
         => mpc'[m] = "exited"

(* C15, amended: a Machine that finds still_on_machine false before       *)
(* running a popped task does not poll it; it hands the task to           *)
(* System::push, which appends it to the injector of the Processor named  *)
(* by the task's hint, or of processors[push_counter mod N] when the task *)
(* has no hint, and wakes that Processor; then Processor::run returns.    *)
C15_GivesTaskBack ==
  [](\A m \in Slots : GivingBack(m) => Revoked(m)) /\ [][GiveBackStep]_vars

(* A revoked Machine has given a never-polled task back, and System::push *)
(* put it into the injector of the other Processor.                       *)
C15_Witness ==
  \E m \in Slots : \E t \in Tasks :
    /\ mpc[m] = "mwake"
    /\ ~checked[m]
    /\ wakeTarget[m] # mproc[m]
    /\ injector[wakeTarget[m]] # <<>>
    /\ injector[wakeTarget[m]][Len(injector[wakeTarget[m]])] = t
    /\ hint[t] = MAX
    /\ polls[t] = 0

(* The Machines that have run line 69.                                    *)
HasBound(m) == mpc[m] \notin {"unused", "spawned"}

UniqueIds ==
  \A m \in Slots : \A r \in Slots :
    (m # r /\ mpc[m] # "unused" /\ mpc[r] # "unused") => mid[m] # mid[r]

StoreStep ==
  /\ \A m \in Slots :
       (HasBound(m) /\ machine_id[mproc[m]] # mid[m])
         => machine_id'[mproc[m]] # mid[m]
  /\ \A p \in Procs :
       machine_id'[p] # machine_id[p]
         => \E m \in Slots : /\ mpc[m] = "spawned"
                              /\ mpc'[m] # "spawned"
                              /\ mproc[m] = p
                              /\ mid[m] = machine_id'[p]

(* C17: Machine ids are unique and each is stored into machine_id once,   *)
(* by its Machine entering Processor::run; a Machine that has bound and   *)
(* finds another id in machine_id never finds its own there again.        *)
C17_RevocationPermanent == []UniqueIds /\ [][StoreStep]_vars

(* Three Machines of one Processor have all run line 69; the replacement  *)
(* created last stored its id before the one created first, which is now  *)
(* the bound Machine.                                                     *)
C17_Witness ==
  \E a, b, c \in Slots :
    /\ Successor(a, b)
    /\ Successor(b, c)
    /\ HasBound(a)
    /\ BoundTo(mproc[b], b)
    /\ Revoked(c)

Pushed(t) == route[t] # NoProc
HintLess(t) == hint[t] \notin Procs

(* C19, as stated: the num_cpus hint-less pushes that one submitter makes *)
(* in a row reach num_cpus different Processors.                          *)
C19_SubmitterRoundRobin ==
  \A t \in Tasks : \A u \in Tasks :
    (t # u /\ Submitter(t) = 1 /\ Submitter(u) = 1 /\ Pushed(t) /\ Pushed(u))
      => route[t] # route[u]

(* C19, amended: System::push puts the task into exactly one injector and *)
(* then attempts a wake-up of that Processor; the target is the Processor *)
(* named by the hint when it is in 0..N and otherwise                     *)
(* processors[push_counter mod N], push_counter being incremented, so     *)
(* hint-less pushes that took N consecutive values of push_counter reach  *)
(* N different Processors.                                                *)
C19_PushRouting ==
  /\ \A t \in Tasks :
       Pushed(t) =>
         /\ \A q \in Procs :
              Count(injector[q], t) = (IF q = route[t] THEN 1 ELSE 0)
         /\ ~HintLess(t) => route[t] = hint[t] /\ ticket[t] = Never
         /\ HintLess(t) => /\ ticket[t] >= 0
                           /\ ticket[t] < push_counter
                           /\ route[t] = ticket[t] % num_cpus
         /\ tpush[t] # NoProc => tpush[t] = route[t]
         /\ tpush[t] = NoProc => notif[route[t]] = 1
  /\ \A t \in Tasks : \A u \in Tasks :
       (t # u /\ Pushed(t) /\ Pushed(u) /\ HintLess(t) /\ HintLess(u))
         => /\ ticket[t] # ticket[u]
            /\ (ticket[t] - ticket[u] \in 1..(num_cpus - 1))
                 => route[t] # route[u]

(* Submitter 1 has made its num_cpus pushes, which went to different      *)
(* Processors, while submitter 2 pushed a woken task to the Processor of  *)
(* its hint; all wake-ups were sent.                                      *)
C19_Witness ==
  /\ \A t \in Tasks : Submitter(t) = 1 => Pushed(t) /\ tpush[t] = NoProc
  /\ \A t \in Tasks : \A u \in Tasks :
       (t # u /\ Submitter(t) = 1 /\ Submitter(u) = 1) => route[t] # route[u]
  /\ \E t \in Tasks :
       /\ Submitter(t) = 2
       /\ ~HintLess(t)
       /\ Pushed(t)
       /\ ticket[t] = Never
       /\ Count(injector[hint[t]], t) = 1

(* C21: in the last_exit variant no two pool threads return from         *)
(* thread_main less than IDLE_THRESHOLD apart, and last_exit never         *)
(* decreases.                                                              *)
ExitsApart ==
  \A a \in Threads : \A b \in Threads :
    (a # b /\ tpc[a] = "exited" /\ tpc[b] = "exited" /\ exitAt[a] <= exitAt[b])
      => exitAt[b] - exitAt[a] >= IDLE_THRESHOLD_MS
LastExitNeverDecreases == last_exit = leMax
C21_DrainRateLastExit == ExitsApart /\ LastExitNeverDecreases

(* C22: at most one SimpleLockGuard exists at a time; try_lock returns   *)
(* None while a guard exists and leaves the lock held, and returns a guard *)
(* when none exists; is_locked is true exactly while a guard exists.       *)
LockInv ==
  /\ \A t \in Lockers : \A u \in Lockers :
       (guards[t] > 0 /\ guards[u] > 0) => (t = u /\ guards[t] = 1)
  /\ locked = GuardExists
LockStep ==
  \A t \in Lockers :
    lcalls'[t] > lcalls[t] =>
      /\ lret'[t] \in {"Some", "None"} =>
           IF GuardExists
           THEN lret'[t] = "None" /\ guards' = guards /\ locked'
           ELSE lret'[t] = "Some" /\ guards'[t] = 1 /\ locked'
      /\ lret'[t] \in {"true", "false"} =>
           ((lret'[t] = "true") <=> GuardExists)
C22_SimpleLockExclusion == []LockInv /\ [][LockStep]_vars
(* Thread t got a guard on a later call and holds it, thread u was        *)
(* refused and thread w saw the lock held.                                 *)
C22_Witness ==
  \E t \in Lockers : \E u \in Lockers \ {t} : \E w \in Lockers \ {t, u} :
    /\ guards[t] = 1 /\ lret[t] = "Some" /\ lcalls[t] >= 2
    /\ lret[u] = "None"
    /\ lret[w] = "true"

(* C23: block_on loses no wake-up: the calling thread never waits in     *)
(* Condvar::wait with the flag set and no notification on its way, it      *)
(* returns once the future is Ready, for a future woken after each Pending *)
(* it does return, and for Yields(k) it returns after exactly k + 1 polls. *)
NoLostWake == (bpc = "wait" /\ runnable) => wpc = "notify"
PollsCounted == bpc = "returned" => (fk = 0 /\ bpolls = f0 + 1)
C23_BlockOnNoLostWake ==
  /\ [](NoLostWake /\ PollsCounted)
  /\ <>(bpc = "returned")
(* Yields-like futures of MaxYields Pendings have returned, one of them    *)
(* after wakes from another thread that came before park and during wait.  *)
C23_Witness ==
  /\ bpc = "returned"
  /\ f0 = MaxYields
  /\ bpolls = MaxYields + 1
  /\ fkind = "thread"
  /\ {"pending", "park", "wait"} \subseteq wokenAt

====
